---- MODULE Spec2Model ----
(***************************************************************************)
(* The script hosts of the repository and the loops that drive them.       *)
(*                                                                         *)
(*   variant = "jsui"  : crates/jsui Engine (timers, listeners,            *)
(*                       renderer.setContents, dirty) driven by the main   *)
(*                       loop of crates/simulator and crates/embedded.     *)
(*   variant = "juice" : crates/juice Renderer (renderer.update, dom,      *)
(*                       should_update, event_callback) with Timers,       *)
(*                       driven through its public methods.                *)
(*                                                                         *)
(* A script is a table of functions (Body); a function is a sequence of    *)
(* calls into the native bindings.  One action is one whole native entry   *)
(* point: everything the script does inside it happens inside the action.  *)
(***************************************************************************)
EXTENDS Integers, Sequences, FiniteSets, TLC

VARIABLES
    variant,       \* which host this run is
    pc,            \* position of the driving loop
    host,          \* the script host: native cells shared with the script
    layout_tree,   \* the layout tree the loop holds (jsui main: layout_tree)
    fb,            \* the software framebuffer / canvas
    display,       \* what the display collaborator was last handed
    reload_rx,     \* bundles in flight on the reload channel
    sent,          \* the bundles the transport has sent, in order
    applied,       \* the bundles the loop has taken and reloaded, in order
    crash,         \* "none", or why the process panicked
    last,          \* what the last native entry point did
    pubSince,      \* the running engine's script published since the loop's
                   \* last has_update()/render() check
    pubSinceAny,   \* some script published since a frame was last painted
    tree,          \* the tree a tree function is applied to; for the touch
                   \* input, the locals of read_touch_state
    point,         \* the point a hit test is asked about; for the touch
                   \* input, InputDevice::touch_state
    result,        \* what the function returned
    dev            \* the reload transport: DEV_SERVER, its thread, the sender

vars == <<variant, pc, host, layout_tree, fb, display, reload_rx, sent, applied,
          crash, last, pubSince, pubSinceAny, tree, point, result, dev>>

\* ------------------------------------------------------------------ bounds
MaxId == 2          \* timers one engine may create
MaxTime == 2        \* clock values 0..MaxTime
MaxPub == 2         \* trees published in one run
MaxReload == 2      \* bundles the transport sends

\* ------------------------------------------------------------ small helpers
None == -1          \* Option::None of a number
Omitted == -2       \* the delay reaches the closure as None (left out / undefined)
EmptyJson == 0      \* tree_json == "", the initial String::new()
BadJson == -1       \* a string serde_json rejects

Max(a, b) == IF a >= b THEN a ELSE b

Range(s) == {s[i] : i \in 1..Len(s)}

Ids(ts) == {ts[i].id : i \in 1..Len(ts)}

\* serde_json::from_str on the published string: versions >= 1 are valid trees.
parse_tree(json) == json >= 1

\* ------------------------------------------------------------- the scripts
Op(o, f, n) == [op |-> o, f |-> f, n |-> n]

\* Stable ids the published trees carry; hit_test resolves a point to one.
NodeIds == 1..7

\* The bundles a host may be booted with, and those the transport delivers.
Bundles == {"app", "timersApp", "appAsync", "lazy", "broken"}

ReloadBundles == {"appAsync", "lazy", "broken"}

\* jsui scripts register a listener on document; juice scripts hand their
\* callback to renderer.update (document does not exist there).
Listen(f) == IF variant = "jsui" THEN <<Op("listen", f, 0)>> ELSE <<>>

\* A jsui listener on another channel than "event".
ListenOther(f) == IF variant = "jsui" THEN <<Op("listen", f, 1)>> ELSE <<>>

\* What each script function does when called with argument k (the node id
\* for an event handler, 0 otherwise).
\*   app        a UI that republishes from its handler, directly or through
\*              zero-delay timers and jobs; in jsui it also registers a
\*              listener on another channel and a second "event" listener
\*   timersApp  a UI whose handler starts, stops and chains timers
\*   appAsync   publishes, then leaves a promise continuation pending
\*   lazy       publishes only from a zero-delay timer
\*   broken     throws while it is evaluated
Body(f, k) ==
    CASE f = "app"       -> Listen("onEvent") \o ListenOther("onKey") \o Listen("onSecond")
                            \o <<Op("publish", "onEvent", 1)>>
      [] f = "timersApp" -> Listen("onTimers") \o Listen("onSecond")
                            \o <<Op("publish", "onTimers", 1)>>
      [] f = "appAsync"  -> <<Op("publish", "noop", 1), Op("job", "jPub", 0)>>
      [] f = "lazy"      -> <<Op("setTimeout", "tPub", 0)>>
      [] f = "broken"    -> <<Op("throw", "", 0)>>
      [] f = "onEvent"   ->
            CASE k = 1  -> <<Op("publish", "onEvent", 1)>>
              [] k = 2  -> <<Op("setTimeout", "tRepub", 0)>>
              [] k = 3  -> <<Op("setTimeout", "tNest", Omitted)>>
              [] k = 4  -> <<Op("job", "jTimer", 0)>>
              [] k = 5  -> <<Op("publish", "onEvent", 0)>>
              [] k = 6  -> <<Op("throw", "", 0)>>
              [] k = 7  -> <<Op("unlisten", "onSecond", 0)>>
              [] OTHER  -> <<>>
      [] f = "onTimers"  ->
            CASE k = 1  -> <<Op("setTimeout", "tSpin", 1)>>
              [] k = 2  -> <<Op("clearTimeout", "", 0)>>
              [] k = 3  -> <<Op("setTimeout", "tClear", 0), Op("setTimeout", "tSpin", 0)>>
              [] k = 4  -> <<Op("setInterval", "tNoop", 1)>>
              [] k = 5  -> <<Op("clearInterval", "", 0)>>
              [] k = 6  -> <<Op("setInterval", "tClear", 0), Op("setInterval", "tNoop", 1)>>
              [] k = 7  -> <<Op("setTimeout", "tThrow", 0), Op("setTimeout", "tNoop", 0),
                             Op("throw", "", 0)>>
              [] OTHER  -> <<>>
      [] f = "tPub"      -> <<Op("publish", "noop", 1)>>
      [] f = "tRepub"    -> <<Op("publish", "onEvent", 1)>>
      [] f = "tNest"     -> <<Op("setTimeout", "tRepub", -1)>>
      [] f = "tClear"    -> <<Op("clearTimeout", "", 0)>>
      [] f = "tSpin"     -> <<Op("spin", "", 0)>>
      [] f = "tThrow"    -> <<Op("throw", "", 0)>>
      [] f = "jPub"      -> <<Op("publish", "noop", 1)>>
      [] f = "jTimer"    -> <<Op("setTimeout", "tRepub", 0)>>
      [] OTHER           -> <<>>

\* ---------------------------------------------------------------- the host
\* Engine::new / Renderer::new: fresh native cells.  now and npub are the
\* clock and the count of trees published so far; they outlive an engine.
\* The fields after npub are bookkeeping the properties read.
NewHost(now, npub) ==
    [ timers |-> <<>>, next_id |-> 1, listeners |-> <<>>,
      tree_json |-> EmptyJson, dirty |-> FALSE,
      dom |-> None, should_update |-> FALSE, event_callback |-> "none",
      jobs |-> <<>>, saved |-> 0, exc |-> FALSE,
      now |-> now, npub |-> npub,
      kpub |-> 0,            \* setContents calls since the loop last tested the flag
      ktested |-> 0,         \* setContents calls the last test of the flag covered
      batch |-> <<>>,        \* ids this entry point selected for firing
      ibatch |-> {},         \* the repeating timers among them
      zfired |-> {},         \* zero-delay one-shots whose callback it called
      hsched |-> {},         \* zero-delay timers its handler (or its jobs) created
      nsched |-> {},         \* zero-delay timers its timer callbacks created
      firedSeq |-> <<>>,     \* ids whose callback this entry point called
      inflight |-> {},       \* selected, callback not yet called
      hit |-> {},            \* ids cleared while in flight
      cancelled |-> {},      \* timers cleared in the list, never selected before
      firedCancelled |-> FALSE,  \* a callback of a cancelled id was called
      early |-> FALSE,       \* an interval fired before its last fire + N
      threw |-> 0,           \* callbacks it called that ended with an exception
      lstart |-> <<>>,       \* the "event" listeners when the dispatch started
      lran |-> <<>>,         \* the listener callbacks the dispatch called
      hitOn |-> None,        \* the tree its hit test was run on
      event |-> {},          \* the fields of the event object it passed
      rlog |-> <<>>,         \* the steps that built it and replaced the old engine
      released |-> 0,        \* handles the replaced engine stored
      freed |-> 0,           \* handles still stored when its runtime was destroyed
      dom_at_reload |-> None,  \* the dom the Renderer held when this engine was built
      ctx |-> "other", hran |-> FALSE, hpub |-> FALSE, pubd |-> FALSE ]

\* Start of a native entry point: forget what the previous one recorded.
Begin(e) ==
    [e EXCEPT !.batch = <<>>, !.firedSeq = <<>>, !.inflight = {}, !.hit = {},
              !.ibatch = {}, !.zfired = {}, !.hsched = {}, !.nsched = {},
              !.ctx = "other", !.hran = FALSE, !.hpub = FALSE, !.pubd = FALSE,
              !.exc = FALSE, !.threw = 0, !.lstart = <<>>, !.lran = <<>>,
              !.hitOn = None, !.event = {},
              !.rlog = <<>>, !.released = 0, !.freed = 0,
              !.timers = [i \in 1..Len(e.timers) |-> [e.timers[i] EXCEPT !.src = "old"]]]

\* The delay argument was 0, negative or not passed.
ZeroDelay(ms) == ms = Omitted \/ ms <= 0

\* ms.unwrap_or(0.0).max(0.0) as u64
Delay(ms) == IF ms = Omitted THEN 0 ELSE Max(ms, 0)

\* A Timer; ms, src, seen, sel and lastFire are bookkeeping: the delay asked
\* for, who created it, whether a tick started and left it, whether a tick
\* selected it, and the sampled time of its last firing.
Timer(id, cb, fire_at, interval, ms, src) ==
    [id |-> id, callback |-> cb, fire_at |-> fire_at, interval |-> interval,
     ms |-> ms, src |-> src, seen |-> FALSE, sel |-> FALSE, lastFire |-> None]

\* Bookkeeping of a timer being created.
NoteTimer(e, id, ms) ==
    [e EXCEPT !.hsched = IF Delay(ms) = 0 /\ e.ctx \in {"listener", "hjob"}
                         THEN @ \cup {id} ELSE @,
              !.nsched = IF Delay(ms) = 0 /\ e.ctx = "htimer"
                         THEN @ \cup {id} ELSE @]

\* A setTimeout that hands out the counter without advancing it.
setTimeoutReusesId(e, cb, ms) ==
    LET id == e.next_id IN
    [NoteTimer(e, id, ms) EXCEPT
              !.timers = Append(@, Timer(id, cb, e.now + Delay(ms), None, ms, e.ctx)),
              !.saved = id]

\* setTimeout(callback, ms): allocate an id, push a one-shot timer.
setTimeout(e, cb, ms) ==
    LET id == e.next_id IN
    [NoteTimer(e, id, ms) EXCEPT
              !.next_id = id + 1,
              !.timers = Append(@, Timer(id, cb, e.now + Delay(ms), None, ms, e.ctx)),
              !.saved = id]

\* setInterval(callback, ms): allocate an id, push a repeating timer.
setInterval(e, cb, ms) ==
    LET id == e.next_id IN
    [NoteTimer(e, id, ms) EXCEPT
              !.next_id = id + 1,
              !.timers = Append(@, Timer(id, cb, e.now + Delay(ms), Delay(ms), ms, e.ctx)),
              !.saved = id]

\* Bookkeeping of a clearTimeout/clearInterval(id) call.
NoteClear(e, id) ==
    [e EXCEPT !.hit = @ \cup ({id} \cap e.inflight),
              !.cancelled = @ \cup {[id |-> t.id, fire_at |-> t.fire_at] :
                                        t \in {u \in Range(e.timers) : u.id = id /\ ~u.sel}}]

\* A clearTimeout that forgets to edit the list.
clearTimeoutKeeps(e, id) == NoteClear(e, id)

\* clearTimeout(id) / clearInterval(id): timers.retain(|t| t.id != id)
clearTimeout(e, id) ==
    [NoteClear(e, id) EXCEPT !.timers = SelectSeq(e.timers, LAMBDA t: t.id # id)]

\* document.addEventListener(event, callback)
addEventListener(e, event, cb) ==
    [e EXCEPT !.listeners = Append(@, [event |-> event, callback |-> cb])]

\* document.removeEventListener(event, callback):
\* listeners.retain(|l| l.event != event || l.callback != callback)
removeEventListener(e, event, cb) ==
    [e EXCEPT !.listeners = SelectSeq(@, LAMBDA l: l.event # event \/ l.callback # cb)]

\* renderer.setContents(json) that forgets the flag.
setContentsNoFlag(e, json) ==
    [e EXCEPT !.tree_json = json, !.pubd = TRUE, !.kpub = @ + 1,
              !.hpub = @ \/ (e.ctx = "listener" /\ parse_tree(json))]

\* renderer.setContents(json): store the string, raise dirty.
setContents(e, json) ==
    [e EXCEPT !.tree_json = json, !.dirty = TRUE, !.pubd = TRUE, !.kpub = @ + 1,
              !.hpub = @ \/ (e.ctx = "listener" /\ parse_tree(json))]

\* renderer.update(content, event_callback): Dom::new, and on Ok store the
\* dom, the flag and the callback; on Err print and change nothing.
update(e, content, cb) ==
    IF parse_tree(content)
    THEN [e EXCEPT !.dom = content, !.should_update = TRUE,
                   !.event_callback = cb, !.pubd = TRUE,
                   !.hpub = @ \/ (e.ctx = "listener")]
    ELSE e

\* The string a publish call passes: a fresh valid tree, or malformed JSON.
Json(e, ok) == IF ok = 1 THEN e.npub + 1 ELSE BadJson

Published(e, ok) == IF ok = 1 THEN [e EXCEPT !.npub = @ + 1] ELSE e

\* The loop has tested the flag: the count of publish calls starts anew.
Tested(e) == [e EXCEPT !.ktested = e.kpub, !.kpub = 0]

\* One call of the script into a native binding.
Apply(e, o) ==
    CASE o.op = "publish" ->
            IF variant = "jsui"
            THEN setContents(Published(e, o.n), Json(e, o.n))
            ELSE update(Published(e, o.n), Json(e, o.n), o.f)
      [] o.op = "setTimeout" -> setTimeout(e, o.f, o.n)
      [] o.op = "setInterval" ->
            IF variant = "juice" THEN setInterval(e, o.f, o.n)
            ELSE [e EXCEPT !.exc = TRUE]      \* jsui registers no setInterval
      [] o.op = "clearTimeout" -> clearTimeout(e, e.saved)
      [] o.op = "clearInterval" ->
            IF variant = "juice" THEN clearTimeout(e, e.saved)
            ELSE [e EXCEPT !.exc = TRUE]
      [] o.op = "listen" ->
            addEventListener(e, IF o.n = 0 THEN "event" ELSE "keydown", o.f)
      [] o.op = "unlisten" ->
            IF variant = "jsui" THEN removeEventListener(e, "event", o.f)
            ELSE [e EXCEPT !.exc = TRUE]      \* juice has no document object
      [] o.op = "job" -> [e EXCEPT !.jobs = Append(@, o.f)]
      [] o.op = "spin" -> [e EXCEPT !.now = @ + 1]
      [] o.op = "throw" -> [e EXCEPT !.exc = TRUE]
      [] OTHER -> e

\* Run a function body; an exception ends it.
RECURSIVE Run(_, _)
Run(e, ops) ==
    IF ops = <<>> \/ e.exc THEN e ELSE Run(Apply(e, Head(ops)), Tail(ops))

\* ctx.eval(bundle): the result keeps the exception, if any.
Eval(e, bundle) == Run([e EXCEPT !.exc = FALSE], Body(bundle, 0))

\* func.call(args).catch(ctx), the error dropped or printed.
Call(e, f, k) ==
    LET r == Run([e EXCEPT !.exc = FALSE], Body(f, k))
    IN  [r EXCEPT !.exc = FALSE, !.threw = IF r.exc THEN @ + 1 ELSE @]

\* while ctx.execute_pending_job() {}
RECURSIVE Drain(_)
Drain(e) ==
    IF e.jobs = <<>> THEN e
    ELSE Drain(Call([e EXCEPT !.jobs = Tail(@)], Head(e.jobs), 0))

\* ---------------------------------------------------------------- ticking
\* timer.fire_at < now: a comparison that misses the instant itself.
DueStrict(t, now) == t.fire_at < now

\* timer.fire_at <= now
Due(t, now) == t.fire_at <= now

\* Rescheduling from the old deadline instead of from now.
RescheduleFromDeadline(t, now) == t.fire_at + t.interval

\* timer.fire_at = now + interval
Reschedule(t, now) == now + t.interval

\* Bookkeeping of a tick's selection: ready is the batch, kept the new list.
Selected(e, ready, kept, now) ==
    [e EXCEPT !.timers = [i \in 1..Len(kept) |->
                            IF kept[i].id \in Ids(ready)
                            THEN [kept[i] EXCEPT !.sel = TRUE, !.seen = FALSE,
                                                 !.lastFire = now]
                            ELSE [kept[i] EXCEPT !.seen = TRUE]],
              !.batch = @ \o [i \in 1..Len(ready) |-> ready[i].id],
              !.ibatch = @ \cup {t.id : t \in {u \in Range(ready) : u.interval # None}},
              !.inflight = Ids(ready),
              !.early = @ \/ (\E t \in Range(ready) :
                                 t.lastFire # None /\ now < t.lastFire + t.interval)]

\* Bookkeeping of one callback of the batch being called.
NoteFire(e, t) ==
    [e EXCEPT !.firedSeq = Append(@, t.id),
              !.inflight = @ \ {t.id},
              !.zfired = IF t.interval = None /\ ZeroDelay(t.ms) THEN @ \cup {t.id} ELSE @,
              !.firedCancelled = @ \/ (t.id \in {c.id : c \in e.cancelled})]

\* A firing loop that skips a timer cleared since the batch was taken.
RECURSIVE FireReadyUnlessCleared(_, _)
FireReadyUnlessCleared(e, ready) ==
    IF ready = <<>> THEN e
    ELSE LET t == Head(ready) IN
         IF t.id \in e.hit
         THEN FireReadyUnlessCleared([e EXCEPT !.inflight = @ \ {t.id}], Tail(ready))
         ELSE FireReadyUnlessCleared(Call(NoteFire(e, t), t.callback, 0), Tail(ready))

\* A firing loop that returns at the first callback error.
RECURSIVE FireReadyStopsOnError(_, _)
FireReadyStopsOnError(e, ready) ==
    IF ready = <<>> \/ e.threw > 0 THEN [e EXCEPT !.inflight = {}]
    ELSE LET t == Head(ready) IN
         FireReadyStopsOnError(Call(NoteFire(e, t), t.callback, 0), Tail(ready))

\* for cb in ready { cb.restore(ctx).call(()).catch(ctx) }
RECURSIVE FireReady(_, _)
FireReady(e, ready) ==
    IF ready = <<>> THEN e
    ELSE LET t == Head(ready) IN
         FireReady(Call(NoteFire(e, t), t.callback, 0), Tail(ready))

\* jsui Engine::tick: retain the timers not yet due, call the others, and
\* drain the job queue if any was called.
EngineTick(e) ==
    LET now   == e.now
        ready == SelectSeq(e.timers, LAMBDA t: Due(t, now))
        kept  == SelectSeq(e.timers, LAMBDA t: ~Due(t, now))
        e1    == Selected(e, ready, kept, now)
    IN  IF ready # <<>> THEN Drain(FireReady(e1, ready)) ELSE e1

\* A tick that, after its batch, selects and fires what is due by then.
TimersTickUntilNoneDue(e) ==
    LET now   == e.now
        ready == SelectSeq(e.timers, LAMBDA t: Due(t, now))
        kept  == SelectSeq(e.timers, LAMBDA t: t.interval # None \/ ~Due(t, now))
        e1    == FireReady(Selected(e, ready, kept, now), ready)
        again == SelectSeq(e1.timers, LAMBDA t: Due(t, now))
        rest  == SelectSeq(e1.timers, LAMBDA t: t.interval # None \/ ~Due(t, now))
    IN  FireReady(Selected(e1, again, rest, now), again)

\* juice Timers::tick: collect the due callbacks, reschedule the intervals,
\* drop the due one-shots, then call the batch.
TimersTick(e) ==
    LET now   == e.now
        ready == SelectSeq(e.timers, LAMBDA t: Due(t, now))
        moved == [i \in 1..Len(e.timers) |->
                    IF Due(e.timers[i], now) /\ e.timers[i].interval # None
                    THEN [e.timers[i] EXCEPT !.fire_at = Reschedule(e.timers[i], now)]
                    ELSE e.timers[i]]
        kept  == SelectSeq(moved, LAMBDA t: t.interval # None \/ t.fire_at > now)
    IN  FireReady(Selected(e, ready, kept, now), ready)

\* juice Engine::tick: fire the due timers, then drain the job queue.
JuiceEngineTick(e) == Drain(TimersTick(e))

\* --------------------------------------------------------------- dispatch
In(e, c) == [e EXCEPT !.ctx = c]

\* self.listeners.iter().filter(|l| l.event == "event")
ListenersFor(e, channel) ==
    SelectSeq(e.listeners, LAMBDA l: l.event = channel)

RECURSIVE CallListeners(_, _, _)
CallListeners(e, ls, node_id) ==
    IF ls = <<>> THEN e
    ELSE LET c == [e EXCEPT !.lran = Append(@, Head(ls).callback)] IN
         CallListeners(In(Call(In(c, "listener"), Head(ls).callback, node_id), "hjob"),
                       Tail(ls), node_id)

\* dispatch_event without the trailing tick.
dispatch_eventNoTick(e, node_id) ==
    LET callbacks == ListenersFor(e, "event") IN
    IF callbacks # <<>>
    THEN Drain(CallListeners([e EXCEPT !.hran = TRUE, !.lstart = callbacks,
                                       !.event = {"nodeId", "type"}],
                             callbacks, node_id))
    ELSE e

\* jsui Engine::dispatch_event: call every "event" listener with one event
\* object {nodeId, type}, drain the job queue, then tick.
dispatch_event(e, node_id) ==
    LET callbacks == ListenersFor(e, "event")
        e1 == IF callbacks # <<>>
              THEN Drain(CallListeners([e EXCEPT !.hran = TRUE, !.lstart = callbacks,
                                       !.event = {"nodeId", "type"}],
                                       callbacks, node_id))
              ELSE e
    IN  EngineTick(In(e1, "htimer"))

\* juice Renderer::press_event: with a callback and a hit node, call the
\* callback with (node_id, event), where event = {type, details: {x, y}},
\* and drain the job queue.
press_event(e, node_id) ==
    IF e.event_callback # "none" /\ node_id # None
    THEN Drain(In(Call(In([e EXCEPT !.hran = TRUE,
                                     !.lstart = <<[event |-> "event",
                                                   callback |-> e.event_callback]>>,
                                     !.lran = <<e.event_callback>>,
                                     !.event = {"type", "details"}], "listener"),
                       e.event_callback, node_id), "hjob"))
    ELSE e

\* ------------------------------------------------------- engine life cycle
\* main.rs make_engine: Engine::new(), nativeLog, then boot(bundle), whose
\* ctx.eval(bundle).catch(ctx) result is unwrapped by the caller.
make_engine(e, bundle) ==
    [Eval(Begin(NewHost(e.now, e.npub)), bundle)
        EXCEPT !.rlog = <<"new_runtime", "register", "setup", "eval">>]

\* The stored Persistent handles to functions of the engine's runtime: the
\* timers' and listeners' callbacks and the Renderer's event callback.
Handles(e) ==
    Len(e.timers) + Len(e.listeners) + IF e.event_callback = "none" THEN 0 ELSE 1

\* A drop that clears the timers only.
Drop_EngineKeepsListeners(e) ==
    [log |-> <<"clear_timers", "destroy_runtime">>,
     left |-> Handles([e EXCEPT !.timers = <<>>])]

\* jsui Drop for Engine: timers.clear(), listeners.clear(), then the fields
\* (_rt, ctx) are dropped.  left counts the handles stored at that moment.
Drop_Engine(e) ==
    [log |-> <<"clear_timers", "clear_listeners", "destroy_runtime">>,
     left |-> Handles([e EXCEPT !.timers = <<>>, !.listeners = <<>>])]

\* The drop of the juice Engine: Timers::clear ("must be called before the
\* Runtime is dropped"), then the runtime.
JuiceEngineDrop(e) ==
    [log |-> <<"clear_timers", "destroy_runtime">>,
     left |-> Handles([e EXCEPT !.timers = <<>>])]

\* engine = new: the assignment drops the engine old, which stored n handles
\* when the reload began; d is the record of that drop.
Replace(new, d, n) ==
    [new EXCEPT !.rlog = @ \o d.log, !.freed = d.left, !.released = n]

\* juice Engine::load: evaluate the bundle; an exception is caught and logged.
load(e, js) == [Eval(e, js) EXCEPT !.exc = FALSE]

\* A reload that leaves the stored event callback in its cell.
reloadKeepsCallback(e, js) ==
    LET taken == e
        fresh == [Begin(NewHost(e.now, e.npub))
                     EXCEPT !.dom = e.dom, !.should_update = e.should_update,
                            !.event_callback = taken.event_callback,
                            !.dom_at_reload = e.dom,
                            !.rlog = <<"take_callback", "new_runtime", "setup">>]
        engine == Replace(fresh, JuiceEngineDrop(taken), Handles(e))
    IN  [load(engine, js) EXCEPT !.rlog = @ \o <<"register", "eval">>]

\* juice Renderer::reload: drop the event callback, build a new engine and
\* register on it, then load the bundle.  dom, should_update and
\* event_callback are cells of the Renderer and stay.
reload(e, js) ==
    LET taken == [e EXCEPT !.event_callback = "none"]
        fresh == [Begin(NewHost(e.now, e.npub))
                     EXCEPT !.dom = e.dom, !.should_update = e.should_update,
                            !.event_callback = taken.event_callback,
                            !.dom_at_reload = e.dom,
                            !.rlog = <<"take_callback", "new_runtime", "setup">>]
        engine == Replace(fresh, JuiceEngineDrop(taken), Handles(e))
    IN  [load(engine, js) EXCEPT !.rlog = @ \o <<"register", "eval">>]

\* read_and_layout: parse_tree(&tree_json).expect(..) panics on Err; the
\* reason tells a malformed published string from the never-set "".
Expect(json) == IF json = BadJson THEN "parse" ELSE "notree"

\* has_update that only reads the flag.
has_updateKeeps(e) == e

\* jsui Engine::has_update: self.dirty.replace(false)
has_update(e) == [e EXCEPT !.dirty = FALSE]

\* juice Renderer::render, the branch taken when should_update is set:
\* paint the dom over the canvas, then lower the flag.
render(e) == [e EXCEPT !.should_update = FALSE]

\* The flag the loop tests before repainting.
Dirty == IF variant = "jsui" THEN host.dirty ELSE host.should_update

InBounds(e) ==
    /\ e.next_id <= MaxId + 1 /\ e.now <= MaxTime /\ e.npub <= MaxPub
    /\ e.kpub <= MaxPub

Blank == [tree |-> 0, residue |-> {}]

\* The canvas, as the pixels a frame can differ in.
Pixels == {1, 2}

\* The pixels the published tree t paints: the odd-numbered trees of a run
\* cover the canvas, the even-numbered ones leave pixel 2 untouched.
Area(t) == IF t % 2 = 1 THEN Pixels ELSE {1}

\* The pixels of canvas f that hold paint: of its tree or of earlier ones.
Painted(f) == IF f.tree = 0 THEN f.residue ELSE f.residue \cup Area(f.tree)

\* rerender: fb.clear(black), then render_tree: nothing of f survives.
clear_and_render_tree(f, t) == [tree |-> t, residue |-> {}]

\* Renderer::render: render_node onto the canvas as it is; residue is the
\* pixels that keep what an earlier tree painted.
render_onto(f, t) == [tree |-> t, residue |-> Painted(f) \ Area(t)]

\* --------------------------------------------------------- reload channel
\* Before spawn_reload_listener: DEV_SERVER is set or not, no thread runs
\* and no sender exists.
NoDev(d) == [DEV_SERVER |-> d, thread |-> FALSE, tx |-> FALSE]

\* A listener that starts its thread whatever the environment says.
spawn_reload_listenerAlways(d) == [d EXCEPT !.thread = TRUE, !.tx = TRUE]

\* jsui_dev::spawn_reload_listener: the thread is spawned, and tx moved into
\* it, only if DEV_SERVER is set; otherwise tx is dropped on return.
spawn_reload_listener(d) ==
    [d EXCEPT !.thread = d.DEV_SERVER, !.tx = d.DEV_SERVER]

\* A receive that takes the newest bundle of the channel.
recvNewest(rx) == [bundle |-> rx[Len(rx)], rest |-> SubSeq(rx, 1, Len(rx) - 1)]

\* The Ok of try_recv on the mpsc channel: the oldest message, which leaves
\* the channel.
recv(rx) == [bundle |-> Head(rx), rest |-> Tail(rx)]

\* reload_rx.try_recv()
try_recv(rx, d) ==
    IF rx # <<>> THEN "Ok" ELSE IF d.tx THEN "Empty" ELSE "Disconnected"

\* ------------------------------------------------------------------- Init
Init ==
    /\ variant \in {"jsui", "juice"}
    /\ pc = "boot"
    /\ host = NewHost(0, 0)
    /\ layout_tree = None
    /\ fb = Blank
    /\ display = Blank
    /\ reload_rx = <<>>
    /\ sent = <<>>
    /\ applied = <<>>
    /\ crash = "none"
    /\ last = "init"
    /\ pubSince = FALSE
    /\ pubSinceAny = FALSE
    /\ tree = <<>>
    /\ point = [x |-> 0, y |-> 0]
    /\ result = None
    /\ dev \in {NoDev(d) : d \in BOOLEAN}

\* The bookkeeping every step of the host shares.
Step(r, name) ==
    /\ InBounds(r)
    /\ host' = r
    /\ last' = name
    /\ pubSince' = (pubSince \/ r.pubd)
    /\ pubSinceAny' = (pubSinceAny \/ r.pubd)

\* ------------------------------------------------- jsui: simulator/embedded
\* let engine = make_engine(&bundle);
Boot(b) ==
    /\ variant = "jsui" /\ pc = "boot"
    /\ LET r == make_engine(host, b) IN
       /\ Step(r, "boot")
       /\ IF r.exc THEN pc' = "crashed" /\ crash' = "eval" /\ dev' = dev
                   ELSE /\ pc' = "init_render" /\ crash' = crash
                        /\ dev' = spawn_reload_listener(dev)
    /\ UNCHANGED <<tree, point, result, variant, applied, layout_tree, fb, display, reload_rx, sent>>

\* The first read_and_layout, render_tree and flush, before the loop; the
\* framebuffer is the new one, not cleared.
InitialRender ==
    /\ variant = "jsui" /\ pc = "init_render"
    /\ IF parse_tree(host.tree_json)
       THEN /\ layout_tree' = host.tree_json
            /\ fb' = render_onto(fb, host.tree_json)
            /\ display' = fb'
            /\ pc' = "events" /\ crash' = crash
       ELSE /\ pc' = "crashed" /\ crash' = Expect(host.tree_json)
            /\ UNCHANGED <<layout_tree, fb, display>>
    /\ last' = "init_render"
    /\ pubSinceAny' = (pubSinceAny /\ pc' = "crashed")
    /\ UNCHANGED <<tree, point, result, variant, dev, applied, host, reload_rx, sent, pubSince>>

\* A press or release over a node that hit_test resolves to id k.
Press(k) ==
    /\ variant = "jsui" /\ pc = "events"
    /\ Step(dispatch_event([Begin(host) EXCEPT !.hitOn = layout_tree], k), "dispatch")
    /\ UNCHANGED <<tree, point, result, variant, dev, applied, pc, layout_tree, fb, display, reload_rx, sent, crash>>

\* A press or release where hit_test finds no id: nothing is dispatched.
PressMiss ==
    /\ variant = "jsui" /\ pc = "events"
    /\ host' = [Begin(host) EXCEPT !.hitOn = layout_tree]
    /\ last' = "miss"
    /\ UNCHANGED <<tree, point, result, variant, dev, applied, pc, layout_tree, fb, display,
                   reload_rx, sent, crash, pubSince, pubSinceAny>>

\* engine.tick(); once per loop iteration, after the events.
MainTick ==
    /\ variant = "jsui" /\ pc = "events"
    /\ Step(EngineTick(Begin(host)), "tick")
    /\ pc' = "reload"
    /\ UNCHANGED <<tree, point, result, variant, dev, applied, layout_tree, fb, display, reload_rx, sent, crash>>

\* reload_rx.try_recv() is Ok: engine = make_engine(&new_bundle).  The new
\* engine is built and booted first; the assignment then drops the old one.
\* When the boot panics the assignment is never reached.
Reload ==
    /\ variant = "jsui" /\ pc = "reload"
    /\ try_recv(reload_rx, dev) = "Ok"
    /\ LET new == make_engine(host, recv(reload_rx).bundle)
           r == IF new.exc THEN new
                ELSE Replace(new, Drop_Engine(host), Handles(host)) IN
       /\ InBounds(r)
       /\ host' = r
       /\ pubSince' = r.pubd
       /\ pubSinceAny' = (pubSinceAny \/ r.pubd)
       /\ IF r.exc THEN pc' = "crashed" /\ crash' = "eval"
                   ELSE pc' = "check" /\ crash' = crash
    /\ reload_rx' = recv(reload_rx).rest
    /\ applied' = Append(applied, recv(reload_rx).bundle)
    /\ last' = "reload"
    /\ UNCHANGED <<tree, point, result, variant, dev, layout_tree, fb, display, sent>>

\* reload_rx.try_recv() is Err(Empty) or Err(Disconnected): the if let
\* does not match and nothing is done.
NoReload ==
    /\ variant = "jsui" /\ pc = "reload"
    /\ try_recv(reload_rx, dev) \in {"Empty", "Disconnected"}
    /\ pc' = "check"
    /\ last' = "noreload"
    /\ UNCHANGED <<tree, point, result, variant, dev, applied, host, layout_tree, fb, display, reload_rx, sent,
                   crash, pubSince, pubSinceAny>>

\* engine.has_update() is true: rerender = read_and_layout, clear, render, flush.
Cycle ==
    /\ variant = "jsui" /\ pc = "check" /\ host.dirty
    /\ host' = Tested(has_update(Begin(host)))
    /\ IF parse_tree(host.tree_json)
       THEN /\ layout_tree' = host.tree_json
            /\ fb' = clear_and_render_tree(fb, host.tree_json)
            /\ display' = fb'
            /\ pc' = "events" /\ crash' = crash
            /\ last' = "cycle"
            /\ pubSince' = FALSE /\ pubSinceAny' = FALSE
       ELSE /\ pc' = "crashed" /\ crash' = Expect(host.tree_json)
            /\ last' = "crash"
            /\ UNCHANGED <<layout_tree, fb, display, pubSince, pubSinceAny>>
    /\ UNCHANGED <<tree, point, result, variant, dev, applied, reload_rx, sent>>

\* engine.has_update() is false: the iteration repaints nothing.
Skip ==
    /\ variant = "jsui" /\ pc = "check" /\ ~host.dirty
    /\ host' = Tested(has_update(Begin(host)))
    /\ pc' = "events"
    /\ last' = "skip"
    /\ UNCHANGED <<tree, point, result, variant, dev, applied, layout_tree, fb, display, reload_rx, sent, crash,
                   pubSince, pubSinceAny>>

\* --------------------------------------------- juice: the Renderer's methods
\* Renderer::new, then the first bundle is loaded into renderer.engine.  The
\* caller obtains its reload channel as the jsui mains do.
RLoad(b) ==
    /\ variant = "juice" /\ pc = "boot"
    /\ Step(load(Begin(host), b), "boot")
    /\ pc' = "run"
    /\ dev' = spawn_reload_listener(dev)
    /\ UNCHANGED <<tree, point, result, variant, applied, layout_tree, fb, display, reload_rx, sent, crash>>

\* Renderer::tick
RTick ==
    /\ variant = "juice" /\ pc = "run"
    /\ Step(JuiceEngineTick(Begin(host)), "tick")
    /\ UNCHANGED <<tree, point, result, variant, dev, applied, pc, layout_tree, fb, display, reload_rx, sent, crash>>

\* Renderer::render: paints the dom over the canvas when should_update is
\* set and returns true; otherwise returns false and paints nothing.
RRender ==
    /\ variant = "juice" /\ pc = "run"
    /\ IF host.should_update
       THEN /\ host' = render(Begin(host))
            /\ layout_tree' = host.dom
            /\ fb' = render_onto(fb, host.dom)
            /\ last' = "cycle"
            /\ pubSince' = FALSE /\ pubSinceAny' = FALSE
       ELSE /\ host' = Begin(host)
            /\ last' = "skip"
            /\ UNCHANGED <<layout_tree, fb, pubSince, pubSinceAny>>
    /\ UNCHANGED <<tree, point, result, variant, dev, applied, pc, display, reload_rx, sent, crash>>

\* Renderer::flush: hand the canvas to the display.
RFlush ==
    /\ variant = "juice" /\ pc = "run"
    /\ display # fb
    /\ display' = fb
    /\ last' = "flush"
    /\ UNCHANGED <<tree, point, result, variant, dev, applied, pc, host, layout_tree, fb, reload_rx, sent, crash,
                   pubSince, pubSinceAny>>

\* Renderer::press_event at a point dom.node_at_point resolves to k
\* (None when there is no dom or no node with an id under the point).
RPress(k) ==
    /\ variant = "juice" /\ pc = "run"
    /\ k # None => host.dom # None
    /\ Step(press_event([Begin(host) EXCEPT !.hitOn = host.dom], k),
            IF k = None THEN "miss" ELSE "dispatch")
    /\ UNCHANGED <<tree, point, result, variant, dev, applied, pc, layout_tree, fb, display, reload_rx, sent, crash>>

\* The caller polls the reload channel and calls Renderer::reload.
RReload ==
    /\ variant = "juice" /\ pc = "run"
    /\ try_recv(reload_rx, dev) = "Ok"
    /\ Step(reload(host, recv(reload_rx).bundle), "reload")
    /\ reload_rx' = recv(reload_rx).rest
    /\ applied' = Append(applied, recv(reload_rx).bundle)
    /\ UNCHANGED <<tree, point, result, variant, dev, pc, layout_tree, fb, display, sent, crash>>

\* ------------------------------------------------------------ environment
\* The reload transport thread sends a bundle.  The channel is read only by
\* try_recv, so a send is placed at the points where the loop polls.  The
\* jsui mains, whose polling loop is in the sources, get MaxReload bundles;
\* the caller of the juice Renderer gets half as many.
SendQuota == IF variant = "jsui" THEN MaxReload ELSE MaxReload \div 2

Send(b) ==
    /\ dev.thread
    /\ pc \in {"reload", "run"}
    /\ Len(sent) < SendQuota
    /\ reload_rx' = Append(reload_rx, b)
    /\ sent' = Append(sent, b)
    /\ UNCHANGED <<tree, point, result, variant, dev, applied, pc, host, layout_tree, fb, display, crash, last,
                   pubSince, pubSinceAny>>

\* Time passes between two entry points (the loop's sleep).  With no timer
\* waiting for a later instant the clock is read by nothing, so the step is
\* taken only when one is.
Tock ==
    /\ pc \in {"events", "run"}
    /\ host.now < MaxTime
    /\ \E t \in Range(host.timers) : t.fire_at > host.now
    /\ host' = [host EXCEPT !.now = @ + 1]
    /\ UNCHANGED <<tree, point, result, variant, dev, applied, pc, layout_tree, fb, display, reload_rx, sent, crash,
                   last, pubSince, pubSinceAny>>

Next ==
    \/ \E b \in Bundles : Boot(b)
    \/ InitialRender
    \/ \E k \in NodeIds : Press(k)
    \/ PressMiss
    \/ MainTick
    \/ Reload
    \/ NoReload
    \/ Cycle
    \/ Skip
    \/ \E b \in Bundles : RLoad(b)
    \/ RTick
    \/ RRender
    \/ RFlush
    \/ \E k \in NodeIds \cup {None} : RPress(k)
    \/ RReload
    \/ \E b \in ReloadBundles : Send(b)
    \/ Tock

Spec == Init /\ [][Next]_vars

\* ============================================================ hit testing
\* A laid-out tree is a sequence of nodes, node 1 the root.  A node holds its
\* context (kind, js_id), the box taffy resolved for it (x, y: location
\* relative to its parent; w, h: size) and its children in declaration
\* order.  The boxes are inputs: taffy places a child with a definite size
\* larger than its parent's, or with a negative margin, outside or over its
\* neighbours, and neither hit test nor paint clips.
MaxOffset == 1      \* locations 0..MaxOffset
MaxSize == 2        \* sizes 1..MaxSize

\* What the loop variables hold while only a tree function runs.
LoopIdle ==
    /\ host = NewHost(0, 0)
    /\ layout_tree = None
    /\ fb = Blank
    /\ display = Blank
    /\ reload_rx = <<>>
    /\ sent = <<>>
    /\ applied = <<>>
    /\ crash = "none"
    /\ pubSince = FALSE
    /\ pubSinceAny = FALSE
    /\ dev = NoDev(FALSE)

loopvars == <<host, layout_tree, fb, display, reload_rx, sent, applied, crash,
              pubSince, pubSinceAny, dev>>

Node(kind, js_id, x, y, w, h, children) ==
    [kind |-> kind, js_id |-> js_id, x |-> x, y |-> y, w |-> w, h |-> h,
     children |-> children]

Reverse(q) == [i \in 1..Len(q) |-> q[Len(q) + 1 - i]]

\* x < node_x || x >= node_x + width || y < node_y || y >= node_y + height
Outside(x, y, node_x, node_y, width, height) ==
    x < node_x \/ x >= node_x + width \/ y < node_y \/ y >= node_y + height

\* dom.rs: the js_id of an Element or Svg context, None for Text or no id.
JsId(n) == IF n.kind \in {"Element", "Svg"} THEN n.js_id ELSE None

\* layout.rs: the node_id of a Container context, None otherwise.
ContainerId(n) == IF n.kind = "Element" THEN n.js_id ELSE None

\* Dom::_node_at_point: outside the node's box -> None; else the first hit
\* among the children in reverse order; else the node's own js_id.
RECURSIVE node_at_point_in(_, _, _, _, _, _)
RECURSIVE children_at_point(_, _, _, _, _, _)
node_at_point_in(t, node_id, x, y, parent_x, parent_y) ==
    LET layout == t[node_id]
        node_x == parent_x + layout.x
        node_y == parent_y + layout.y
    IN  IF Outside(x, y, node_x, node_y, layout.w, layout.h) THEN None
        ELSE LET id == children_at_point(t, Reverse(layout.children), x, y,
                                         node_x, node_y)
             IN  IF id # None THEN id ELSE JsId(layout)

children_at_point(t, kids, x, y, node_x, node_y) ==
    IF kids = <<>> THEN None
    ELSE LET id == node_at_point_in(t, Head(kids), x, y, node_x, node_y)
         IN  IF id # None THEN id
             ELSE children_at_point(t, Tail(kids), x, y, node_x, node_y)

\* Dom::node_at_point
node_at_point(t, x, y) == node_at_point_in(t, 1, x, y, 0, 0)

\* preact-embedded hit_test_node: the same walk over Container/Text contexts.
RECURSIVE hit_test_node(_, _, _, _, _, _)
RECURSIVE hit_test_children(_, _, _, _, _, _)
hit_test_node(t, taffy_node, target_x, target_y, parent_x, parent_y) ==
    LET layout == t[taffy_node]
        abs_x == parent_x + layout.x
        abs_y == parent_y + layout.y
    IN  IF Outside(target_x, target_y, abs_x, abs_y, layout.w, layout.h) THEN None
        ELSE LET hit == hit_test_children(t, Reverse(layout.children),
                                          target_x, target_y, abs_x, abs_y)
             IN  IF hit # None THEN hit ELSE ContainerId(layout)

hit_test_children(t, kids, target_x, target_y, abs_x, abs_y) ==
    IF kids = <<>> THEN None
    ELSE LET hit == hit_test_node(t, Head(kids), target_x, target_y, abs_x, abs_y)
         IN  IF hit # None THEN hit
             ELSE hit_test_children(t, Tail(kids), target_x, target_y, abs_x, abs_y)

\* preact-embedded hit_test
hit_test(t, x, y) == hit_test_node(t, 1, x, y, 0, 0)

\* The hit test of the variant at hand.
Hit(t, p) ==
    IF variant = "dom" THEN node_at_point(t, p.x, p.y) ELSE hit_test(t, p.x, p.y)

\* render_node: a node is painted at its absolute position, then its
\* children in declaration order.  The sequence of painted nodes with their
\* absolute boxes, first painted first.
RECURSIVE render_node(_, _, _, _)
RECURSIVE render_children(_, _, _, _)
render_node(t, node_id, parent_x, parent_y) ==
    LET layout == t[node_id]
        x == parent_x + layout.x
        y == parent_y + layout.y
    IN  <<[node |-> node_id, x |-> x, y |-> y, w |-> layout.w, h |-> layout.h]>>
        \o render_children(t, layout.children, x, y)

render_children(t, kids, x, y) ==
    IF kids = <<>> THEN <<>>
    ELSE render_node(t, Head(kids), x, y) \o render_children(t, Tail(kids), x, y)

\* The absolute box of node n of tree t.
AbsBox(t, n) ==
    LET order == render_node(t, 1, 0, 0)
    IN  order[CHOOSE i \in 1..Len(order) : order[i].node = n]

Contains(b, p) == ~Outside(p.x, p.y, b.x, b.y, b.w, b.h)

\* The topmost id-carrying node under the point: the last painted node that
\* carries an id and whose absolute box contains the point; None if none.
Topmost(t, p) ==
    LET order == render_node(t, 1, 0, 0)
        cand  == {i \in 1..Len(order) :
                     Contains(order[i], p) /\ JsId(t[order[i].node]) # None}
    IN  IF cand = {} THEN None
        ELSE JsId(t[order[CHOOSE i \in cand : \A j \in cand : j <= i].node])

\* The trees the hit tests are run on: a root with two children declared in
\* the order 2, 3 (stable ids 1 and 2) and a leaf under the second child:
\* a Text, or an Svg with or without a stable id (dom.rs only).
Offsets == 0..MaxOffset

Sizes == 1..MaxSize

HitTrees(v) ==
    { << Node("Element", rid, 0, 0, MaxSize, 1, <<2, 3>>),
         Node("Element", 1, a[1], 0, a[2], a[3], <<>>),
         Node("Element", 2, b[1], 0, b[2], b[3], <<4>>),
         Node(lf[1], lf[2], c[1], 0, c[2], c[3], <<>>) >> :
        rid \in {None, 9},
        a \in Offsets \X Sizes \X Sizes,
        b \in Offsets \X Sizes \X Sizes,
        c \in Offsets \X Sizes \X Sizes,
        lf \in IF v = "dom"
               THEN {<<"Text", None>>, <<"Svg", 3>>, <<"Svg", None>>}
               ELSE {<<"Text", None>>} }

Points == [x : 0..(2 * MaxOffset + MaxSize - 1), y : 0..(MaxSize - 1)]

HitInit ==
    /\ variant \in {"dom", "layout"}
    /\ pc = "input"
    /\ last = "init"
    /\ tree \in HitTrees(variant)
    /\ point \in Points
    /\ result = None
    /\ LoopIdle

\* dom.node_at_point(x, y) / layout::hit_test(&layout_tree, x, y)
HitOnce ==
    /\ pc = "input"
    /\ result' = Hit(tree, point)
    /\ pc' = "hit"
    /\ last' = "hit"
    /\ UNCHANGED <<variant, tree, point>>
    /\ UNCHANGED loopvars

\* The same call again on the same tree and point.
HitAgain ==
    /\ pc = "hit"
    /\ result' = Hit(tree, point)
    /\ pc' = "again"
    /\ last' = "hit"
    /\ UNCHANGED <<variant, tree, point>>
    /\ UNCHANGED loopvars

HitNext ==
    \/ HitOnce
    \/ HitAgain

HitSpec == HitInit /\ [][HitNext]_vars

\* ======================================================= style inheritance
\* A declared tree (juice Node / preact-embedded WidgetNode) is a sequence of
\* nodes, node 1 the root.  An Element declares color, font and font_size or
\* leaves them out; a Text declares nothing.  An Option is held as a
\* sequence: <<>> for None, <<v>> for Some(v).
MaxColor == 2           \* declared colours 1..MaxColor
DefaultFontSize == 24   \* InheritedStyle::new: font_size: 24.0
SmallFontSize == 12     \* a declared fontSize

White == [r |-> 255, g |-> 255, b |-> 255]

\* RgbColor::from_array([r, g, b])
from_array(rgb) == [r |-> rgb[1], g |-> rgb[2], b |-> rgb[3]]

\* preact-embedded RgbColor::from_hex: a well-formed "#rrggbb" (held here as
\* its three bytes) gives that colour; a string that is not six hex digits
\* long (held as a sequence of another length) gives white.
from_hex(hex) == IF Len(hex) # 3 THEN White ELSE from_array(hex)

\* InheritedStyle::new(default_font)
InheritedStyle_new(default_font) ==
    [color |-> White, font_name |-> default_font, font_size |-> DefaultFontSize]

\* A clone_and_override that forgets the font name.
clone_and_overrideDropsFont(self, color, font_name, font_size) ==
    [color |-> IF color # <<>> THEN color[1] ELSE self.color,
     font_name |-> self.font_name,
     font_size |-> IF font_size # <<>> THEN font_size[1] ELSE self.font_size]

\* InheritedStyle::clone_and_override(color, font_name, font_size)
clone_and_override(self, color, font_name, font_size) ==
    [color |-> IF color # <<>> THEN color[1] ELSE self.color,
     font_name |-> IF font_name # <<>> THEN font_name[1] ELSE self.font_name,
     font_size |-> IF font_size # <<>> THEN font_size[1] ELSE self.font_size]

\* NodeContext::Text { color, font_name, font_size } of Text node n.
TextContext(n, inherited) ==
    [node |-> n, color |-> inherited.color, font_name |-> inherited.font_name,
     font_size |-> inherited.font_size]

\* dom.rs build_node: the Text contexts built under node n, in build order.
RECURSIVE build_node(_, _, _)
RECURSIVE build_children(_, _, _)
build_node(t, n, inherited_style) ==
    IF t[n].kind = "Text" THEN <<TextContext(n, inherited_style)>>
    ELSE LET child_style ==
                 clone_and_override(inherited_style,
                                    IF t[n].color = <<>> THEN <<>>
                                    ELSE <<from_array(t[n].color[1])>>,
                                    t[n].font, t[n].font_size)
         IN  build_children(t, t[n].children, child_style)

build_children(t, kids, child_style) ==
    IF kids = <<>> THEN <<>>
    ELSE build_node(t, Head(kids), child_style)
         \o build_children(t, Tail(kids), child_style)

\* preact-embedded layout.rs build_node.
RECURSIVE layout_build_node(_, _, _)
RECURSIVE layout_build_children(_, _, _)
layout_build_node(t, n, inherited) ==
    IF t[n].kind = "Text" THEN <<TextContext(n, inherited)>>
    ELSE LET c1 == IF t[n].color # <<>>
                   THEN [inherited EXCEPT !.color = from_hex(t[n].color[1])]
                   ELSE inherited
             c2 == IF t[n].font # <<>>
                   THEN [c1 EXCEPT !.font_name = t[n].font[1]] ELSE c1
             child_inherited ==
                   IF t[n].font_size # <<>>
                   THEN [c2 EXCEPT !.font_size = t[n].font_size[1]] ELSE c2
         IN  layout_build_children(t, t[n].children, child_inherited)

layout_build_children(t, kids, child_inherited) ==
    IF kids = <<>> THEN <<>>
    ELSE layout_build_node(t, Head(kids), child_inherited)
         \o layout_build_children(t, Tail(kids), child_inherited)

\* Dom::new / build_layout_tree, seeded with InheritedStyle::new.
Build(t) ==
    IF variant = "dom" THEN build_node(t, 1, InheritedStyle_new("default"))
    ELSE layout_build_node(t, 1, InheritedStyle_new("default"))

Elem(color, font, font_size, children) ==
    [kind |-> "Element", color |-> color, font |-> font, font_size |-> font_size,
     children |-> children]

TextNode == [kind |-> "Text", color |-> <<>>, font |-> <<>>, font_size |-> <<>>,
             children |-> <<>>]

\* The colours an Element may declare: none, [c, 0, 0] / its hex text, and
\* for preact-embedded a string that is no colour.
DeclaredColors(v) ==
    {<<>>} \cup {<< <<c, 0, 0>> >> : c \in 1..MaxColor}
           \cup (IF v = "layout" THEN {<< <<0>> >>} ELSE {})

Declarations(v) ==
    DeclaredColors(v) \X {<<>>, <<"mono">>} \X {<<>>, <<SmallFontSize>>}

\* The declared trees: root 1 with the Elements 2 and 3 and the Text 4 as
\* children; Text 5 under Element 2, Text 6 under Element 3.
StyleTrees(v) ==
    { << Elem(d1[1], d1[2], d1[3], <<2, 3, 4>>),
         Elem(d2[1], d2[2], d2[3], <<5>>),
         Elem(d3[1], d3[2], d3[3], <<6>>),
         TextNode, TextNode, TextNode >> :
        d1 \in Declarations(v), d2 \in Declarations(v), d3 \in Declarations(v) }

BuildInit ==
    /\ variant \in {"dom", "layout"}
    /\ pc = "input"
    /\ last = "init"
    /\ tree \in StyleTrees(variant)
    /\ point = [x |-> 0, y |-> 0]
    /\ result = None
    /\ LoopIdle

\* Dom::new(content, base_style, ..) builds the tree.
BuildDom ==
    /\ variant = "dom" /\ pc = "input"
    /\ result' = Build(tree)
    /\ pc' = "built"
    /\ last' = "build"
    /\ UNCHANGED <<variant, tree, point>>
    /\ UNCHANGED loopvars

\* build_layout_tree(widget, default_font) builds the tree.
BuildLayout ==
    /\ variant = "layout" /\ pc = "input"
    /\ result' = Build(tree)
    /\ pc' = "built"
    /\ last' = "build"
    /\ UNCHANGED <<variant, tree, point>>
    /\ UNCHANGED loopvars

BuildNext ==
    \/ BuildDom
    \/ BuildLayout

BuildSpec == BuildInit /\ [][BuildNext]_vars

\* ================================================================ parsing
\* A published tree as JSON: a sequence of node objects, node 1 the root.
\* type is the discriminant ("" when the object has none), width the JSON
\* value of the width field, children the places of the child objects.
\* Variant "dom" is juice Dom::new (serde-derived Node, then build_node with
\* parse_dimension); variant "tree" is jsui parse_tree (WidgetNode).
MaxDim == 2         \* the numbers 1..MaxDim a dimension may name

JNode(type, width, children) ==
    [type |-> type, width |-> width, children |-> children]

\* JSON values of a dimension field: k is the JSON kind; for a string, n is
\* the number its text before the suffix denotes (digits FALSE: that text
\* is no number) and suf the suffix.
DimJson(k, digits, n, suf) == [k |-> k, digits |-> digits, n |-> n, suf |-> suf]

Absent == DimJson("absent", FALSE, 0, "")

Dim(kind, n) == [kind |-> kind, n |-> n]

Failed == [ok |-> FALSE, nodes |-> <<>>]

\* serde on `width: String` with #[serde(default)]: absent gives "", a
\* string itself, any other JSON kind is an invalid-type error.
string_field(w) == w.k \in {"absent", "string"}

\* juice parse_dimension; Percent n stands for the fraction n / 100.
parse_dimension(w) ==
    IF w.k = "string" /\ w.suf = "px"
    THEN IF w.digits THEN Dim("length", w.n) ELSE Dim("auto", 0)
    ELSE IF w.k = "string" /\ w.suf = "%"
    THEN IF w.digits THEN Dim("percent", w.n) ELSE Dim("auto", 0)
    ELSE Dim("auto", 0)

\* jsui Deserialize for DimensionValue: Ok with a value, or Err.
DimensionValue(w) ==
    IF w.k = "number" THEN [ok |-> TRUE, v |-> Dim("length", w.n)]
    ELSE IF w.k = "string"
    THEN IF w.suf = "%"
         THEN [ok |-> w.digits, v |-> Dim("percent", w.n)]
         ELSE IF w.suf = "px"
         THEN [ok |-> w.digits, v |-> Dim("length", w.n)]
         ELSE IF w.suf = "" /\ w.digits
         THEN [ok |-> TRUE, v |-> Dim("length", w.n)]
         ELSE [ok |-> FALSE, v |-> Dim("unset", 0)]
    ELSE [ok |-> FALSE, v |-> Dim("unset", 0)]

\* obj.get("props").map(|v| from_value(v).unwrap_or_default()): a style
\* whose width fails to deserialize gives Props::default(), width None.
Props(w) ==
    IF w.k = "absent" \/ ~DimensionValue(w).ok
    THEN [ok |-> TRUE, v |-> Dim("unset", 0)]
    ELSE DimensionValue(w)

RECURSIVE Node_deserialize(_, _)
RECURSIVE Nodes_deserialize(_, _)
\* serde-derived Deserialize for the juice Node (#[serde(tag = "type")]):
\* an unknown or missing tag, a width that is no string, or a child that
\* fails, fail the whole value.  The parsed nodes carry the Dimension that
\* build_node gives them.
Node_deserialize(t, n) ==
    IF t[n].type = "text"
    THEN [ok |-> TRUE, nodes |-> (n :> [tag |-> "text", dim |-> Dim("unset", 0),
                                        children |-> <<>>])]
    ELSE IF t[n].type \notin {"element", "svg"} \/ ~string_field(t[n].width)
    THEN Failed
    ELSE LET kids == IF t[n].type = "element" THEN t[n].children ELSE <<>>
             sub == Nodes_deserialize(t, kids)
         IN  IF ~sub.ok THEN Failed
             ELSE [ok |-> TRUE,
                   nodes |-> (n :> [tag |-> t[n].type,
                                    dim |-> parse_dimension(t[n].width),
                                    children |-> kids]) @@ sub.nodes]

Nodes_deserialize(t, kids) ==
    IF kids = <<>> THEN [ok |-> TRUE, nodes |-> <<>>]
    ELSE LET h == Node_deserialize(t, Head(kids))
             r == Nodes_deserialize(t, Tail(kids))
         IN  IF h.ok /\ r.ok THEN [ok |-> TRUE, nodes |-> h.nodes @@ r.nodes]
             ELSE Failed

RECURSIVE WidgetNode_deserialize(_, _)
RECURSIVE WidgetNodes_deserialize(_, _)
\* jsui Deserialize for WidgetNode: only a missing type is an error; any
\* other tag than "#text" is an Element; props and children that fail to
\* deserialize are replaced by their defaults.
WidgetNode_deserialize(t, n) ==
    IF t[n].type = "" THEN Failed
    ELSE IF t[n].type = "#text"
    THEN [ok |-> TRUE, nodes |-> (n :> [tag |-> "#text", dim |-> Dim("unset", 0),
                                        children |-> <<>>])]
    ELSE LET sub == WidgetNodes_deserialize(t, t[n].children)
             kids == IF sub.ok THEN t[n].children ELSE <<>>
         IN  [ok |-> TRUE,
              nodes |-> (n :> [tag |-> t[n].type, dim |-> Props(t[n].width).v,
                               children |-> kids])
                        @@ (IF sub.ok THEN sub.nodes ELSE <<>>)]

WidgetNodes_deserialize(t, kids) ==
    IF kids = <<>> THEN [ok |-> TRUE, nodes |-> <<>>]
    ELSE LET h == WidgetNode_deserialize(t, Head(kids))
             r == WidgetNodes_deserialize(t, Tail(kids))
         IN  IF h.ok /\ r.ok THEN [ok |-> TRUE, nodes |-> h.nodes @@ r.nodes]
             ELSE Failed

\* Dom::new(content, ..) / parse_tree(json)
Parse(t) ==
    IF variant = "dom" THEN Node_deserialize(t, 1)
    ELSE WidgetNode_deserialize(t, 1)

\* The tags a container and a leaf carry: the known ones, one no variant is
\* named after, and none.
ContainerTags(v) ==
    IF v = "dom" THEN {"element", "blink", ""} ELSE {"view", "blink", ""}

LeafTags(v) ==
    IF v = "dom" THEN {"element", "text", "svg", "blink", ""}
    ELSE {"view", "#text", "blink", ""}

DimJsons ==
    {Absent, DimJson("bool", FALSE, 0, ""), DimJson("string", FALSE, 0, "px"),
     DimJson("string", FALSE, 0, "")}
    \cup {DimJson("number", TRUE, n, "") : n \in 1..MaxDim}
    \cup {DimJson("string", TRUE, n, suf) :
            n \in 1..MaxDim, suf \in {"px", "%", "", "em"}}

\* The published trees: root 1 with children 2 and 3, node 4 under 2; the
\* root and node 3 carry a width.
JsonTrees(v) ==
    { << JNode(t1, w1, <<2, 3>>), JNode(t2, Absent, <<4>>),
         JNode(t3, w3, <<>>), JNode(t4, Absent, <<>>) >> :
        t1 \in ContainerTags(v), t2 \in ContainerTags(v),
        t3 \in LeafTags(v) \ {"text", "#text"}, t4 \in LeafTags(v),
        w1 \in DimJsons, w3 \in DimJsons }

ParseInit ==
    /\ variant \in {"dom", "tree"}
    /\ pc = "input"
    /\ last = "init"
    /\ tree \in JsonTrees(variant)
    /\ point = [x |-> 0, y |-> 0]
    /\ result = Failed
    /\ LoopIdle

\* Dom::new(&content, ..)
ParseDom ==
    /\ variant = "dom" /\ pc = "input"
    /\ result' = Parse(tree)
    /\ pc' = "parsed"
    /\ last' = "parse"
    /\ UNCHANGED <<variant, tree, point>>
    /\ UNCHANGED loopvars

\* parse_tree(&tree_json)
ParseTree ==
    /\ variant = "tree" /\ pc = "input"
    /\ result' = Parse(tree)
    /\ pc' = "parsed"
    /\ last' = "parse"
    /\ UNCHANGED <<variant, tree, point>>
    /\ UNCHANGED loopvars

ParseNext ==
    \/ ParseDom
    \/ ParseTree

ParseSpec == ParseInit /\ [][ParseNext]_vars

\* =============================================================== blending
\* One colour channel of one pixel.  The input is the source channel src,
\* the source alpha a and the destination channel dst; the result is the
\* stored channel out and the largest intermediate value sum the u16
\* arithmetic had to hold.  variant names the function.
U8 == 256           \* `as u8` keeps the value modulo 2^8
U16 == 65536        \* u16 arithmetic is modulo 2^16

Stored(out, sum) == [out |-> out, sum |-> sum]

\* A blend whose inverse alpha is one too large.
blend_channelOffByOne(c, a, bg) ==
    LET inv_a == 256 - a
        sum == c * a + bg * inv_a
    IN  Stored(((sum % U16) \div 255) % U8, sum)

\* Canvas::blend_pixel / Framebuffer::blend_pixel, one channel:
\* ((color as u16 * a + bg * inv_a) / 255) as u8
blend_channel(c, a, bg) ==
    LET inv_a == 255 - a
        sum == c * a + bg * inv_a
    IN  Stored(((sum % U16) \div 255) % U8, sum)

\* Canvas::blit_rgba, one channel: a == 0 skips the pixel, a == 255 stores
\* the source, otherwise the blend_pixel formula.
blit_rgba(c, a, bg) ==
    IF a = 0 THEN Stored(bg, 0)
    ELSE IF a = 255 THEN Stored(c, 0)
    ELSE blend_channel(c, a, bg)

\* A premultiplied blit that truncates the destination share.
blit_premultiplied_rgbaTruncates(c, a, bg) ==
    IF a = 0 THEN Stored(bg, 0)
    ELSE IF a = 255 THEN Stored(c, 0)
    ELSE LET inv_a == 255 - a
             share == bg * inv_a
             sum == c + (share % U16) \div 255
         IN  Stored((sum % U16) % U8, Max(share, sum))

\* Canvas::blit_premultiplied_rgba, one channel:
\* (src as u16 + (bg * inv_a + 127) / 255) as u8
blit_premultiplied_rgba(c, a, bg) ==
    IF a = 0 THEN Stored(bg, 0)
    ELSE IF a = 255 THEN Stored(c, 0)
    ELSE LET inv_a == 255 - a
             share == bg * inv_a + 127
             sum == c + (share % U16) \div 255
         IN  Stored((sum % U16) % U8, Max(share, sum))

\* The channel values tried: both ends, the middle and their neighbours.
Samples == {0, 1, 2, 126, 127, 128, 129, 253, 254, 255}

Alphas == 0..255

BlendInputs == [src : Samples, a : Alphas, dst : Samples]

BlendInit ==
    /\ variant \in {"canvas_blend_pixel", "framebuffer_blend_pixel",
                    "blit_rgba", "blit_premultiplied_rgba"}
    /\ pc = "input"
    /\ last = "init"
    /\ tree \in BlendInputs
    /\ point = [x |-> 0, y |-> 0]
    /\ result = Stored(0, 0)
    /\ LoopIdle

Blended(r) ==
    /\ pc = "input"
    /\ result' = r
    /\ pc' = "blended"
    /\ last' = "blend"
    /\ UNCHANGED <<variant, tree, point>>
    /\ UNCHANGED loopvars

\* juice Canvas::blend_pixel
CanvasBlendPixel ==
    /\ variant = "canvas_blend_pixel"
    /\ Blended(blend_channel(tree.src, tree.a, tree.dst))

\* jsui Framebuffer::blend_pixel
FramebufferBlendPixel ==
    /\ variant = "framebuffer_blend_pixel"
    /\ Blended(blend_channel(tree.src, tree.a, tree.dst))

BlitRgba ==
    /\ variant = "blit_rgba"
    /\ Blended(blit_rgba(tree.src, tree.a, tree.dst))

BlitPremultipliedRgba ==
    /\ variant = "blit_premultiplied_rgba"
    /\ Blended(blit_premultiplied_rgba(tree.src, tree.a, tree.dst))

BlendNext ==
    \/ CanvasBlendPixel
    \/ FramebufferBlendPixel
    \/ BlitRgba
    \/ BlitPremultipliedRgba

BlendSpec == BlendInit /\ [][BlendNext]_vars

\* ------------------------------------------------------------ touch input
\* embedded/src/input.rs: InputDevice keeps the touch state of the last
\* read; read_touch_state folds the evdev events waiting on the device into
\* a copy of it, and read_touch_event turns the difference into an event.
MaxCoord == 1

MaxPresses == 3

TouchState(x, y, pressed) == [x |-> x, y |-> y, pressed |-> pressed]

NoEvent == [type |-> "None"]

TouchEvent(type, x, y) == [type |-> type, x |-> x, y |-> y]

\* The evdev events a fetch can deliver: the four position axes, the two
\* touch keys (value 0 up, 1 down, 2 repeat), and anything else.
RawEvents ==
    ([code : {"ABS_X", "ABS_Y", "ABS_MT_POSITION_X", "ABS_MT_POSITION_Y"},
      val : 0..MaxCoord])
    \cup ([code : {"BTN_TOUCH", "BTN_TOOL_FINGER"}, val : 0..2])
    \cup [code : {"SYN_REPORT"}, val : {0}]

\* One arm of the match in read_touch_state, applied to the locals.
destructure(l, ev) ==
    CASE ev.code \in {"ABS_X", "ABS_MT_POSITION_X"} ->
            [touch_state |-> [l.touch_state EXCEPT !.x = ev.val], has_event |-> TRUE]
      [] ev.code \in {"ABS_Y", "ABS_MT_POSITION_Y"} ->
            [touch_state |-> [l.touch_state EXCEPT !.y = ev.val], has_event |-> TRUE]
      [] ev.code \in {"BTN_TOUCH", "BTN_TOOL_FINGER"} ->
            [touch_state |-> [l.touch_state EXCEPT !.pressed = (ev.val # 0)],
             has_event |-> TRUE]
      [] OTHER -> l

\* A read_touch_event that reports a press on every read that ends pressed.
read_touch_eventLevel(old, l) ==
    IF ~l.has_event THEN [event |-> NoEvent, touch_state |-> old]
    ELSE LET new == l.touch_state IN
         [event |-> IF new.pressed
                    THEN TouchEvent("PressIn", new.x, new.y)
                    ELSE IF old.pressed
                    THEN TouchEvent("PressOut", new.x, new.y)
                    ELSE IF old.x # new.x \/ old.y # new.y
                    THEN TouchEvent("Move", new.x, new.y)
                    ELSE NoEvent,
          touch_state |-> new]

\* read_touch_event once read_touch_state has returned: None (and the
\* stored state kept) when no event was folded in, else the event the
\* difference to the stored state makes, and the new state stored.
read_touch_event(old, l) ==
    IF ~l.has_event THEN [event |-> NoEvent, touch_state |-> old]
    ELSE LET new == l.touch_state IN
         [event |-> IF new.pressed /\ ~old.pressed
                    THEN TouchEvent("PressIn", new.x, new.y)
                    ELSE IF ~new.pressed /\ old.pressed
                    THEN TouchEvent("PressOut", new.x, new.y)
                    ELSE IF old.x # new.x \/ old.y # new.y
                    THEN TouchEvent("Move", new.x, new.y)
                    ELSE NoEvent,
          touch_state |-> new]

\* InputDevice::new, before any read.
TouchInit ==
    /\ variant = "touch"
    /\ pc = "idle"
    /\ last = "init"
    /\ point = TouchState(0, 0, FALSE)
    /\ tree = [touch_state |-> point, has_event |-> FALSE]
    /\ result = [event |-> NoEvent, returned |-> <<>>]
    /\ LoopIdle

\* read_touch_state starts: clone the stored state, has_event = false.
ReadTouchState ==
    /\ variant = "touch" /\ pc = "idle"
    /\ tree' = [touch_state |-> point, has_event |-> FALSE]
    /\ pc' = "fetch_events"
    /\ last' = "read_touch_state"
    /\ UNCHANGED <<variant, point, result>>
    /\ UNCHANGED loopvars

\* fetch_events delivered an event: one turn of the for loop.
FetchEvent(ev) ==
    /\ variant = "touch" /\ pc = "fetch_events"
    /\ tree' = destructure(tree, ev)
    /\ last' = "fetch_events"
    /\ UNCHANGED <<variant, pc, point, result>>
    /\ UNCHANGED loopvars

\* fetch_events returned Err (nothing waiting): read_touch_state returns
\* and read_touch_event finishes.  returned keeps the events other than
\* Move that the reads have returned so far.
ReadTouchEvent ==
    /\ variant = "touch" /\ pc = "fetch_events"
    /\ LET r == read_touch_event(point, tree) IN
       /\ point' = r.touch_state
       /\ result' = [event |-> r.event,
                     returned |-> IF r.event.type \in {"PressIn", "PressOut"}
                                  THEN Append(result.returned, r.event.type)
                                  ELSE result.returned]
       /\ Len(result'.returned) <= MaxPresses
    /\ pc' = "idle"
    /\ last' = "read_touch_event"
    /\ UNCHANGED <<variant, tree>>
    /\ UNCHANGED loopvars

TouchNext ==
    \/ ReadTouchState
    \/ \E ev \in RawEvents : FetchEvent(ev)
    \/ ReadTouchEvent

TouchSpec == TouchInit /\ [][TouchNext]_vars

\* ================================================================ claims
Count(seq, x) == Cardinality({i \in 1..Len(seq) : seq[i] = x})

AfterDispatch == last = "dispatch" /\ host.hran

AfterTick == last \in {"tick", "dispatch"}

\* C1: when a handler called by dispatch publishes a valid tree
\* synchronously, the dirty flag is true as soon as dispatch has returned;
\* and whenever a cycle paints, the tree it read, laid out and painted is
\* the most recently published one, never an earlier one.
C1_DispatchThenRepublish ==
    /\ (last = "dispatch" /\ host.hpub) => Dirty
    /\ last = "cycle" => (layout_tree = host.npub /\ fb.tree = host.npub)

\* C1 witness: dispatch has just returned, its handler published a tree the
\* framebuffer does not show yet, and the flag is up.
C1_Witness ==
    last = "dispatch" /\ host.hpub /\ Dirty /\ fb.tree >= 1 /\ host.npub > fb.tree

C3_ZeroDelayOneShot ==
    /\ \A t \in Range(host.timers) :
           t.interval = None => (~t.sel /\ (ZeroDelay(t.ms) => ~t.seen))
    /\ AfterTick => \A i \in 1..Len(host.batch) :
                        Count(host.firedSeq, host.batch[i]) = 1
                        /\ Count(host.batch, host.batch[i]) = 1

\* C3 witness: a tick has just called the callback of a zero-delay
\* one-shot timer, which is no longer in the list.
C3_Witness ==
    /\ last = "tick" /\ host.zfired # {}
    /\ host.zfired \cap Ids(host.timers) = {}

\* C4: a repeating timer selected by a tick() whose sampled time is T is
\* still in the list afterwards (unless a callback cleared it) with
\* fire_at = T + N, and it never fires in a tick whose sampled time is
\* before T + N.
C4_IntervalRescheduledFromNow ==
    /\ ~host.early
    /\ \A t \in Range(host.timers) :
           (t.interval # None /\ t.lastFire # None) =>
               t.fire_at = t.lastFire + t.interval
    /\ AfterTick => host.ibatch \subseteq (Ids(host.timers) \cup host.hit)

\* C4 witness: a repeating timer that fired late (after its deadline) and
\* that a later tick, sampled before T + N, has left in the list.
C4_Witness ==
    \E t \in Range(host.timers) :
        /\ t.interval = 1 /\ t.lastFire = 2 /\ t.seen
        /\ last = "tick" /\ host.now < t.fire_at

\* C5: a timer removed by clearTimeout/clearInterval while it was in the
\* list and before any tick selected it is gone from the list and its
\* callback is never called afterwards.
C5_CancelledNeverFires ==
    /\ ~host.firedCancelled
    /\ {c.id : c \in host.cancelled} \cap Ids(host.timers) = {}

\* C5 witness: a tick has run at or after the deadline of a cancelled timer.
C5_Witness ==
    last = "tick" /\ \E c \in host.cancelled : c.fire_at <= host.now

\* C6: a timer cleared by a callback of the same tick, after the tick had
\* selected it, still has its callback called in that tick.
C6_InFlightStillFires ==
    AfterTick => (host.inflight = {} /\ host.hit \subseteq Range(host.firedSeq))

\* C6 witness: a timer was cleared while in flight and its callback ran.
C6_Witness ==
    AfterTick /\ host.hit # {} /\ host.hit \subseteq Range(host.firedSeq)

\* C7 as claimed: when tick() returns, whether or not a timer was due, the
\* job queue is empty.
C7_TickDrainsJobs == last = "tick" => host.jobs = <<>>

C9_BadJsonChangesNothing ==
    crash # "parse" /\ host.tree_json # BadJson

\* C10 as claimed: a bundle whose evaluation throws never panics the process.
C10_EvalErrorNotFatal == crash # "eval"

\* C11: when a timer callback or an event listener called by tick() or by
\* dispatch ends with an uncaught exception, the call still returns
\* normally (no exception escapes, the process does not panic), every timer
\* of the batch has had its callback called exactly once, every "event"
\* listener registered at the start of the dispatch has been called once,
\* and the timer list is what a normal return leaves: the selected one-shot
\* timers are gone and the selected repeating timers are rescheduled.
C11_CallbackErrorRecovered ==
    ((AfterTick \/ last = "dispatch") /\ host.threw > 0) =>
        /\ ~host.exc /\ crash = "none"
        /\ host.inflight = {}
        /\ \A i \in 1..Len(host.batch) : Count(host.firedSeq, host.batch[i]) = 1
        /\ host.lran = [i \in 1..Len(host.lstart) |-> host.lstart[i].callback]
        /\ \A t \in Range(host.timers) :
               t.id \in Range(host.batch) =>
                   (t.interval # None /\ t.fire_at = t.lastFire + t.interval)

\* C11 witness: a jsui dispatch whose first listener threw and whose second
\* listener was still called, and whose tick fired a batch of two timers
\* of which the first threw.
C11_Witness ==
    /\ last = "dispatch" /\ host.threw >= 2
    /\ Len(host.lran) = 2 /\ Len(host.firedSeq) = 2

\* C12 as claimed: for the sibling Elements with stable ids 1 and 2 (2
\* declared after 1), whenever both absolute boxes contain the point and no
\* id-carrying descendant of the second lies over it, hit returns 2, on the
\* first call and on a repeated call.
C12_TopSiblingHit ==
    (/\ pc \in {"hit", "again"}
     /\ Contains(AbsBox(tree, 2), point)
     /\ Contains(AbsBox(tree, 3), point)
     /\ ~(JsId(tree[4]) # None /\ Contains(AbsBox(tree, 4), point)))
        => result = 2

\* C13 as claimed: hit returns the stable id of the first node in reverse
\* paint order whose absolute box contains the point and which carries a
\* stable id, and none exactly when the tree has no such node.
C13_HitIsTopmost ==
    pc \in {"hit", "again"} => result = Topmost(tree, point)

\* C14 as claimed: the id attached to a Vector (svg) node is returned by hit
\* for every point inside the node's absolute box, and for no point outside it.
C14_VectorIdRoundTrip ==
    (pc \in {"hit", "again"} /\ tree[4].kind = "Svg" /\ tree[4].js_id # None)
        => (Contains(AbsBox(tree, 4), point) <=> result = tree[4].js_id)

\* The parent of node n, and the nearest proper ancestor of n that declares
\* field f (None when no ancestor does).
ParentOf(t, n) == CHOOSE q \in 1..Len(t) : n \in Range(t[q].children)

RECURSIVE NearestDeclaring(_, _, _)
NearestDeclaring(t, n, f) ==
    IF n = 1 THEN None
    ELSE LET q == ParentOf(t, n) IN
         IF t[q][f] # <<>> THEN q ELSE NearestDeclaring(t, q, f)

\* The colour a declaration denotes.
Denoted(c) == IF variant = "dom" THEN from_array(c) ELSE from_hex(c)

\* C15: for every Text node and each of color, font name and font size on
\* its own, the value in the Text's context is the one declared by the
\* nearest ancestor Element that declares that field (for a colour, the
\* colour the declaration denotes), or the root default - white, the default
\* font, size 24 - when no ancestor declares it.  Siblings and ancestors of
\* a declaring Element are therefore unaffected.
C15_NearestAncestorStyle ==
    pc = "built" =>
        /\ {result[i].node : i \in 1..Len(result)}
               = {n \in 1..Len(tree) : tree[n].kind = "Text"}
        /\ \A i \in 1..Len(result) :
              LET n  == result[i].node
                  qc == NearestDeclaring(tree, n, "color")
                  qf == NearestDeclaring(tree, n, "font")
                  qs == NearestDeclaring(tree, n, "font_size")
              IN  /\ result[i].color =
                        IF qc = None THEN White ELSE Denoted(tree[qc].color[1])
                  /\ result[i].font_name =
                        IF qf = None THEN "default" ELSE tree[qf].font[1]
                  /\ result[i].font_size =
                        IF qs = None THEN DefaultFontSize ELSE tree[qs].font_size[1]

\* C15 witness: the root declares a colour and a font, Element 2 declares
\* another colour and a size, Element 3 declares nothing; Text 5 under
\* Element 2 has Element 2's colour and size and the root's font, while
\* Text 6 under Element 3 has the root's colour and the default size.
C15_Witness ==
    /\ pc = "built"
    /\ tree[1].color = << <<1, 0, 0>> >> /\ tree[1].font = <<"mono">>
    /\ tree[1].font_size = <<>>
    /\ tree[2].color = << <<2, 0, 0>> >> /\ tree[2].font = <<>>
    /\ tree[2].font_size = <<SmallFontSize>>
    /\ tree[3].color = <<>> /\ tree[3].font = <<>> /\ tree[3].font_size = <<>>
    /\ \E i, j \in 1..Len(result) :
          /\ result[i].node = 5 /\ result[i].color.r = 2
          /\ result[i].font_name = "mono" /\ result[i].font_size = SmallFontSize
          /\ result[j].node = 6 /\ result[j].color.r = 1
          /\ result[j].font_size = DefaultFontSize

\* C16 as claimed: once a frame has been painted, the hit test of a press
\* or release runs on the tree of the frame last painted, not on a tree
\* published since; and when it finds no id no script code is called.
C16_HitOnPaintedFrame ==
    (last \in {"dispatch", "miss"} /\ fb.tree # 0) =>
        /\ host.hitOn = fb.tree
        /\ last = "miss" =>
              (~host.hran /\ host.lran = <<>> /\ host.firedSeq = <<>>)

\* The callbacks of the "event" listeners of host h, in registration order.
EventCallbacks(h) ==
    LET ls == SelectSeq(h.listeners, LAMBDA l: l.event = "event")
    IN  [i \in 1..Len(ls) |-> ls[i].callback]

\* The callbacks a dispatch starting in host h has to call.
ToCall(h) ==
    IF variant = "jsui" THEN EventCallbacks(h) ELSE <<h.event_callback>>

\* C17: a dispatch that runs a handler calls, once each, every
\* listener registered for "event" when it started (the single callback in
\* juice) and no other, and passes an event object that carries the node
\* id, the event type and the details.
C17_EventObjectComplete ==
    /\ [][(last' = "dispatch" /\ host'.hran) => host'.lran = ToCall(host)]_vars
    /\ [](AfterDispatch => {"nodeId", "type", "details"} \subseteq host.event)

\* The place of step a in a log.
Pos(log, a) == CHOOSE i \in 1..Len(log) : log[i] = a

\* Both steps were taken, a before b.
Before(log, a, b) ==
    /\ a \in Range(log) /\ b \in Range(log)
    /\ Pos(log, a) < Pos(log, b)

\* The steps of a reload that release stored handles.
Releases == IF variant = "jsui" THEN {"clear_timers", "clear_listeners"}
            ELSE {"take_callback", "clear_timers"}

\* A reload has replaced the engine.
Reloaded == last = "reload" /\ pc # "crashed"

C19_NoTransportInert ==
    /\ [](~dev.DEV_SERVER =>
            /\ ~dev.thread /\ reload_rx = <<>> /\ sent = <<>>
            /\ last # "reload" /\ "destroy_runtime" \notin Range(host.rlog)
            /\ pc \in {"reload", "run"} => try_recv(reload_rx, dev) = "Disconnected")
    /\ [][(~dev.DEV_SERVER /\ pc = "reload") =>
            /\ pc' = "check"
            /\ UNCHANGED <<host, layout_tree, fb, display, crash, reload_rx>>]_vars

\* C19 witness: without DEV_SERVER the loop has polled the channel with
\* timers pending and time passed.
C19_Witness ==
    /\ ~dev.DEV_SERVER /\ variant = "jsui"
    /\ last = "noreload" /\ pc = "check"
    /\ host.now >= 1 /\ host.timers # <<>>

\* C20: the loop takes bundles one per iteration, oldest first: what it has
\* applied, followed by what is still in the channel, is what the transport
\* sent, in order and with nothing left out; a reload is a step of its own
\* that follows a finished tick, takes exactly one bundle and is followed
\* by the cycle check, never by a second poll; and a poll of an empty
\* channel goes on at once.
C20_ReloadInSendOrder ==
    /\ [](applied \o reload_rx = sent)
    /\ [][(Len(applied') > Len(applied)) =>
            /\ Len(applied') = Len(applied) + 1
            /\ Len(reload_rx') = Len(reload_rx) - 1
            /\ last' = "reload"
            /\ variant = "jsui" =>
                  (pc = "reload" /\ pc' \in {"check", "crashed"}
                     /\ last = "tick")]_vars
    /\ [][(variant = "jsui" /\ pc = "reload" /\ pc' # pc) =>
            pc' \in {"check", "crashed"}]_vars
    /\ []((variant = "jsui" /\ pc = "reload" /\ reload_rx = <<>>) =>
            ENABLED NoReload)

\* C20 witness: two different bundles were sent and both have been applied,
\* in that order.
C20_Witness ==
    /\ Len(applied) = 2 /\ applied[1] # applied[2]
    /\ applied = sent
    /\ pc # "crashed"

\* The tags that name a variant: the three of the juice Node; for the jsui
\* WidgetNode every tag that is present.
Known(tag) ==
    IF variant = "dom" THEN tag \in {"element", "text", "svg"} ELSE tag # ""

\* C21: a tree with, anywhere in it, a node whose tag names no variant does
\* not parse; and a parse that succeeds has kept every node of the tree with
\* all its children.
C21_UnknownTagFailsParse ==
    pc = "parsed" =>
        /\ (\E n \in 1..Len(tree) : ~Known(tree[n].type)) => ~result.ok
        /\ result.ok =>
              /\ DOMAIN result.nodes = 1..Len(tree)
              /\ \A n \in 1..Len(tree) :
                    result.nodes[n].children = tree[n].children

\* The dimension values the contract accepts, and what each denotes.
Accepted(w) ==
    \/ w.k = "number"
    \/ w.k = "string" /\ w.digits /\ w.suf \in {"px", "%"}

Denotes(w) == IF w.suf = "%" THEN Dim("percent", w.n) ELSE Dim("length", w.n)

\* C22: in a tree whose tags are all known, a width that is a bare number,
\* "Npx" or "N%" parses to the length N, the length N and the fraction
\* N/100, and a width that is present and anything else makes the parse of
\* the tree fail.
C22_DimensionStrict ==
    (pc = "parsed" /\ \A n \in 1..Len(tree) : Known(tree[n].type)) =>
        /\ (\A n \in 1..Len(tree) : Accepted(tree[n].width) \/ tree[n].width = Absent)
              => /\ result.ok
                 /\ \A n \in 1..Len(tree) :
                       Accepted(tree[n].width) =>
                           result.nodes[n].dim = Denotes(tree[n].width)
        /\ (\E n \in 1..Len(tree) : ~Accepted(tree[n].width) /\ tree[n].width # Absent)
              => ~result.ok

\* C23: after every cycle no pixel of the framebuffer holds what an earlier
\* tree painted: each pixel shows the newly published tree or the clear
\* colour.
C23_FrameDependsOnTreeOnly ==
    (last = "cycle" /\ fb.tree # 0) => fb.residue = {}

\* C24: for every source channel, alpha and destination channel, each of
\* the four blending functions stores exactly the source with alpha 255 and
\* leaves the destination unchanged with alpha 0; for every alpha the
\* intermediate sums fit 16 bits and the stored channel is a value of
\* 0..255; and between the two ends blend_pixel and blit_rgba store a value
\* between destination and source.
C24_AlphaBoundaries ==
    pc = "blended" =>
        /\ tree.a = 255 => result.out = tree.src
        /\ tree.a = 0 => result.out = tree.dst
        /\ result.sum < U16
        /\ result.out \in 0..255
        /\ variant # "blit_premultiplied_rgba" =>
              /\ result.out <= Max(tree.src, tree.dst)
              /\ result.out >= (IF tree.src <= tree.dst THEN tree.src ELSE tree.dst)

\* C24 witness: a blend strictly between the ends, of a full source onto a
\* full destination, the largest intermediate sum there is.
C24_Witness ==
    /\ pc = "blended" /\ variant = "canvas_blend_pixel"
    /\ tree.a = 128 /\ tree.src = 255 /\ tree.dst = 255
    /\ result.sum = 65025 /\ result.out = 255

\* The stored channel is src + dst * (255 - a) / 255, rounded up or down.
Composited ==
    LET exact == tree.dst * (255 - tree.a)
        part == 255 * (result.out - tree.src)
    IN  part - exact < 255 /\ exact - part < 255

\* C25 as claimed: for every source channel, alpha and destination channel
\* the premultiplied blit stores src + dst * (255 - a) / 255.
C25_PremultipliedAllInputs ==
    (pc = "blended" /\ variant = "blit_premultiplied_rgba") => Composited

\* C25 amended: for a premultiplied source, that is src <= a, the blit
\* stores src + dst * (255 - a) / 255 with the quotient rounded to the
\* nearest integer, a value of 0..255 that did not wrap; alpha 0 leaves the
\* destination and alpha 255 stores the source.  For src > a the sum can
\* pass 255 and the stored channel is its low 8 bits.
C25_PremultipliedComposite ==
    (pc = "blended" /\ variant = "blit_premultiplied_rgba" /\ tree.src <= tree.a) =>
        LET exact == tree.dst * (255 - tree.a)
            part == 255 * (result.out - tree.src)
        IN  /\ 2 * (part - exact) <= 255 /\ 2 * (exact - part) <= 255
            /\ result.sum < U16
            /\ result.out >= tree.src

\* C25 witness: a premultiplied source composited over a destination whose
\* share is rounded up.
C25_Witness ==
    /\ pc = "blended" /\ variant = "blit_premultiplied_rgba"
    /\ tree.src = 126 /\ tree.a = 127 /\ tree.dst = 1
    /\ result.out = 127

\* has_update() has just returned true / has just returned.
ReturnedTrue == last' \in {"cycle", "crash"}

Checked == variant = "jsui" /\ pc = "check" /\ pc' # "check"

\* C26: a has_update() call returns true iff setContents was called on the
\* engine since the previous has_update() call, however many times, and it
\* leaves the flag false, so a further call with no publish between returns
\* false; the tree read after a true is the last one published.
C26_HasUpdateReadAndClear ==
    /\ [][Checked =>
            /\ ReturnedTrue <=> host.kpub >= 1
            /\ ~host'.dirty
            /\ last' = "cycle" =>
                  (layout_tree' = host.npub /\ fb'.tree = host.npub)]_vars
    /\ []((variant = "jsui" /\ pc = "check" /\ host.kpub = 0) => ENABLED Skip)

\* C26 witness: the script published twice between two checks and the cycle
\* has read the second tree; the flag is down.
C26_Witness ==
    /\ variant = "jsui" /\ last = "cycle" /\ pc = "events"
    /\ host.ktested = 2 /\ layout_tree = host.npub
    /\ display.tree = host.npub
    /\ ~host.dirty

\* The ids of the timers of host h that are due at its clock.
DueIds(h) == {t.id : t \in {u \in Range(h.timers) : u.fire_at <= h.now}}

\* C27: the callbacks one tick() calls are exactly those of the timers due
\* when it starts, each once, so it makes no more calls than there are
\* timers; a zero-delay timer that one of these callbacks creates is not
\* called in that tick, and a repeating timer with interval 0 is called
\* once and stays in the list, due at the next tick.
C27_TickFiresEachOnce ==
    [][(MainTick \/ RTick) =>
          /\ Range(host'.firedSeq) = DueIds(host)
          /\ \A id \in DueIds(host) : Count(host'.firedSeq, id) = 1
          /\ Len(host'.firedSeq) <= Len(host.timers)
          /\ host'.inflight = {}
          /\ \A t \in Range(host'.timers) :
                t.src # "old" => t.id \notin Range(host'.firedSeq)
          /\ \A t \in Range(host'.timers) :
                (t.interval = 0 /\ t.id \in DueIds(host)) =>
                    /\ Count(host'.firedSeq, t.id) = 1
                    /\ t.fire_at = host.now /\ t.fire_at <= host'.now]_vars

\* C27 witness: a tick has called a callback that created a zero-delay
\* timer, which waits in the list for the next tick.
C27_Witness ==
    /\ last = "tick" /\ host.firedSeq # <<>>
    /\ \E t \in Range(host.timers) :
          t.src # "old" /\ ZeroDelay(t.ms) /\ t.fire_at <= host.now

\* The sequence s without its i-th element.
Without(s, i) == SubSeq(s, 1, i - 1) \o SubSeq(s, i + 1, Len(s))

\* Every id clearTimeout/clearInterval can be passed in a run.
AnyId == 0..(MaxId + 2)

\* C28: the ids of the timers in the list come from one counter that
\* starts at 1: they lie between 1 and the counter, are pairwise distinct
\* and increase in creation order; so clearTimeout(id)/clearInterval(id)
\* on any reachable list removes exactly the one timer with that id and
\* leaves every other timer as it was, and leaves the list as it was when
\* no timer has that id.
C28_TimerIdsDistinct ==
    /\ host.next_id >= 1
    /\ \A i \in 1..Len(host.timers) :
          host.timers[i].id >= 1 /\ host.timers[i].id < host.next_id
    /\ \A i, j \in 1..Len(host.timers) :
          i < j => host.timers[i].id < host.timers[j].id
    /\ \A id \in AnyId :
          LET after == clearTimeout(host, id).timers IN
          IF id \in Ids(host.timers)
          THEN \E i \in 1..Len(host.timers) :
                  host.timers[i].id = id /\ after = Without(host.timers, i)
          ELSE after = host.timers

\* C28 witness: a clear call has removed the timer created last from a
\* list in which other timers remain, so its id is now an unknown one.
C28_Witness ==
    /\ host.cancelled # {} /\ host.timers # <<>>
    /\ host.saved > 0 /\ host.saved \notin Ids(host.timers)

\* The engine running is one a reload built, and its bundle has not yet
\* published a tree that parsed: the Renderer still holds the dom it held
\* when the reload started.
AwaitingFirstTree ==
    variant = "juice" /\ applied # <<>> /\ host.dom = host.dom_at_reload

\* C29: after a reload, until the new bundle has published a tree that
\* parsed, a press event calls no script callback, although its hit test is
\* run on the tree the previous bundle published, which is also the tree on
\* the canvas.
C29_NoStaleCallback ==
    /\ [](AwaitingFirstTree => host.event_callback = "none")
    /\ [][(AwaitingFirstTree /\ \E k \in NodeIds \cup {None} : RPress(k)) =>
            /\ ~host'.hran /\ host'.lran = <<>> /\ host'.firedSeq = <<>>
            /\ host'.hitOn = host.dom
            /\ host'.dom = host.dom /\ fb' = fb]_vars

\* C29 witness: a press has hit a node of the previous bundle's tree while
\* the reloaded bundle had published nothing, and no callback was called.
C29_Witness ==
    /\ AwaitingFirstTree /\ last = "dispatch"
    /\ host.hitOn # None /\ host.hitOn = host.dom
    /\ fb.tree # 0 /\ ~host.hran

\* C30: over any sequence of reads, the events read_touch_event returns
\* other than Move are PressIn, PressOut, PressIn, ... in turn, starting
\* with PressIn; a read returns Move only when the pressed state it leaves
\* equals the one it found and x or y differs; and a read that leaves the
\* stored state as it found it returns no event.
C30_PressEventsAlternate ==
    /\ [](\A i \in 1..Len(result.returned) :
            result.returned[i] = IF i % 2 = 1 THEN "PressIn" ELSE "PressOut")
    /\ [][ReadTouchEvent =>
            /\ result'.event.type = "Move" =>
                  /\ point'.pressed = point.pressed
                  /\ (point'.x # point.x \/ point'.y # point.y)
            /\ point' = point => result'.event = NoEvent
            /\ ~tree.has_event => (point' = point /\ result'.event = NoEvent)]_vars

\* C30 witness: the reads have returned PressIn, PressOut and PressIn again,
\* and the last read folded in events that changed nothing and returned no
\* event.
C30_Witness ==
    /\ last = "read_touch_event"
    /\ result.returned = <<"PressIn", "PressOut", "PressIn">>
    /\ tree.has_event /\ result.event = NoEvent /\ point.pressed

====
